---------------------------- MODULE Spec2Model ----------------------------
(***************************************************************************)
(* Model of the post workflow of LocalBlogGenius: the reference-data       *)
(* upserts, the generation client with its retry loop, the Post insert,    *)
(* the generic get and delete, the blog statistics, the keyword            *)
(* categorizer and create_with_category, the location search and the       *)
(* get_db session scope.                                                   *)
(*                                                                         *)
(* The relational store is the only shared state.  Every datastore round   *)
(* trip of create_blog_post (a query, or an add+commit+refresh) is one     *)
(* atomic step, so requests served by different workers interleave between *)
(* a lookup and the insert that follows it; a request is also suspended    *)
(* while a generation request is in flight.  A commit can be rejected by   *)
(* the store (constraint violation or any other datastore error), which    *)
(* leaves the tables as they were; reads do not fail.                      *)
(***************************************************************************)
EXTENDS Integers, Sequences, FiniteSets, TLC

\* ------------------------------------------------------------- bounds
MaxCalls == 2
MaxUses == 2
MaxWrites == 2

Procs == {1, 2}

\* The create_blog_post calls the callers make.
Requests ==
    { [industry_name |-> "Bakery", location_name |-> "Austin", style |-> "casual"],
      [industry_name |-> "Bakery", location_name |-> "Denver", style |-> "professional"],
      [industry_name |-> "Plumbing", location_name |-> "Austin", style |-> "professional"] }
IndustryNames == { r.industry_name : r \in Requests }
LocationNames == { r.location_name : r \in Requests }

\* The create_with_category calls the callers make: a name create_blog_post
\* upserts too and a name with a keyword in it, with or without a description.
CategorizedNames == { "Bakery", "Legal Aid" }
Descriptions == { "NULL", "about" }

\* The characters of the industry names.
Spelling ==
    [ Bakery |-> << "B", "a", "k", "e", "r", "y" >>,
      Plumbing |-> << "P", "l", "u", "m", "b", "i", "n", "g" >> ]
    @@ ("Legal Aid" :> << "L", "e", "g", "a", "l", " ", "A", "i", "d" >>)

\* ---------------------------------------------------------- constants
max_retries == 3
retry_delay == 1
HTTP_500_INTERNAL_SERVER_ERROR == 500
HTTP_503_SERVICE_UNAVAILABLE == 503
HTTP_200_OK == 200
HTTP_404_NOT_FOUND == 404

\* The rows and values that stand for Python's None.
NoIndustry == [id |-> 0, name |-> "", description |-> "NULL", category |-> "NULL"]
NoLocation == [id |-> 0, name |-> "", country |-> ""]
NoResponse == [content |-> "", tokens_used |-> 0, finish_reason |-> ""]
NoArgs == [industry_name |-> "", location_name |-> "", style |-> ""]
NoResult == [status |-> 0, step |-> ""]
NoTime == 0
NoStats == [total_posts |-> -1, posts_by_industry |-> [n \in {} |-> 0],
            posts_by_location |-> [n \in {} |-> 0], average_tokens |-> 0,
            last_generated |-> NoTime]

\* What the text-generation provider can answer to one request.
Responses ==
    { [content |-> "text-a", tokens_used |-> 100, finish_reason |-> "stop"],
      [content |-> "text-b", tokens_used |-> 200, finish_reason |-> "length"] }

VARIABLES
    industries,   \* committed Industry rows
    locations,    \* committed Location rows
    posts,        \* committed BlogPost rows
    clock,        \* datetime.utcnow(), in ticks
    calls,        \* service calls started so far
    pc,           \* where each request handler stands
    args,         \* the arguments of the call a handler serves
    industry,     \* the local `industry` of create_blog_post
    location,     \* the local `location` of create_blog_post
    attempt,      \* the loop variable of generate_blog_content
    outcomes,     \* the outcome of each upstream request of the call, in order
    sleeps,       \* the time.sleep durations of the call, in order
    generated,    \* the local `generated` of create_blog_post
    result,       \* what the call gave its caller
    stats,        \* what get_blog_stats returned
    catName,      \* the name given to _categorize_industry
    catResult,    \* what _categorize_industry returned
    geoReply,     \* what the geocoding service does with the request
    geoOut,       \* what search_locations gave its caller
    scope,        \* the session of one use of get_db and what was done to it
    crud,         \* what a generic get or delete gave its caller
    related       \* what get_related_industries gave its caller

vars == << industries, locations, posts, clock, calls, pc, args, industry,
           location, attempt, outcomes, sleeps, generated, result, stats,
           catName, catResult, geoReply, geoOut, scope, crud,
           related >>

dbVars == << industries, locations, posts, clock >>
catVars == << stats, catName, catResult >>
auxVars == << geoReply, geoOut, scope, crud, related >>

\* The values of the variables of an operation nobody has called.
NoReply == [kind |-> "none", status |-> 0, valid |-> FALSE, results |-> << >>]
NoOut == [status |-> 0, suggestions |-> << >>, requests |-> 0]
NoScope == [pc |-> "unused", pending |-> << >>, log |-> << >>, raised |-> "nothing"]
NoCrud == [op |-> "none", model |-> "", id |-> 0, raise_not_found |-> FALSE,
           status |-> 0, row |-> 0]
NoRelated == [industry_name |-> "", limit |-> 0, status |-> 0, rows |-> {}]

AuxInit ==
    /\ geoReply = NoReply
    /\ geoOut = NoOut
    /\ scope = NoScope
    /\ crud = NoCrud
    /\ related = NoRelated

\* ------------------------------------------------------------ helpers
Max(S) == CHOOSE x \in S : \A y \in S : y <= x

\* The primary key the store gives a new row: one past the largest rowid in
\* the table (the default SQLite allocation of an INTEGER PRIMARY KEY).
NextId(rows) == IF rows = {} THEN 1 ELSE Max({r.id : r \in rows}) + 1

RECURSIVE SumSeq(_)
SumSeq(s) == IF s = << >> THEN 0 ELSE Head(s) + SumSeq(Tail(s))

Idle(p) == pc[p] \in {"idle", "done", "failed"}

\* ------------------------------------------------------- create_blog_post
\* create_blog_post is left, by return or by raise: its arguments and locals are gone.
Leave(p) ==
    /\ args' = [args EXCEPT ![p] = NoArgs]
    /\ industry' = [industry EXCEPT ![p] = NoIndustry]
    /\ location' = [location EXCEPT ![p] = NoLocation]
    /\ generated' = [generated EXCEPT ![p] = NoResponse]

\* generate_blog_content has returned and its result is used: what was observed
\* of it (the loop variable, the requests, the sleeps) is dropped.
Forget(p) ==
    /\ attempt' = [attempt EXCEPT ![p] = 0]
    /\ outcomes' = [outcomes EXCEPT ![p] = << >>]
    /\ sleeps' = [sleeps EXCEPT ![p] = << >>]

\* A caller starts create_blog_post(industry_name, location_name, topic, style).
StartCall(p) ==
    /\ Idle(p)
    /\ calls < MaxCalls
    /\ \E r \in Requests : args' = [args EXCEPT ![p] = r]
    /\ calls' = calls + 1
    /\ pc' = [pc EXCEPT ![p] = "industry_lookup"]
    /\ Forget(p)
    /\ result' = [result EXCEPT ![p] = NoResult]
    /\ UNCHANGED << dbVars, industry, location, generated, catVars, auxVars >>

\* The except clause of create_blog_post: db.rollback(), then HTTPException(500).
\* A rejected commit has written nothing, so the rollback leaves the tables alone.
RaiseFatal(p, step) ==
    /\ pc' = [pc EXCEPT ![p] = "failed"]
    /\ result' = [result EXCEPT ![p] =
                     [status |-> HTTP_500_INTERNAL_SERVER_ERROR, step |-> step]]
    /\ Leave(p)

\* An Industry.name declared without unique=True.
IndustryNameTaken_NotUnique(name) == FALSE

\* Industry.name is declared unique=True: the store rejects a second row of a name.
IndustryNameTaken(name) == \E r \in industries : r.name = name

\* A Location.name declared unique, as Industry.name is.
LocationNameTaken_Unique(name) == \E r \in locations : r.name = name

\* Location.name is declared with index=True only: no insert is rejected for its name.
LocationNameTaken(name) == FALSE

\* db.query(Industry).filter(Industry.name == name)
IndustryByName(name) == { r \in industries : r.name = name }

\* A query that filters Location on the wrong column.
LocationByName_WrongColumn(name) == { r \in locations : r.country = name }

\* db.query(Location).filter(Location.name == name)
LocationByName(name) == { r \in locations : r.name = name }

\* _get_or_create_industry, the query and .first()
IndustryLookup(p) ==
    /\ pc[p] = "industry_lookup"
    /\ LET found == IndustryByName(args[p].industry_name) IN
          IF found = {}
          THEN /\ pc' = [pc EXCEPT ![p] = "industry_insert"]
               /\ UNCHANGED industry
          ELSE /\ \E r \in found : industry' = [industry EXCEPT ![p] = r]
               /\ pc' = [pc EXCEPT ![p] = "location_lookup"]
    /\ UNCHANGED << dbVars, calls, args, location, attempt, outcomes, sleeps,
                    generated, result, catVars, auxVars >>

\* An upsert that fills in a category and a description of its own.
IndustryInsert_Described(p) ==
    /\ pc[p] = "industry_insert"
    /\ LET row == [id |-> NextId(industries), name |-> args[p].industry_name,
                   description |-> args[p].industry_name, category |-> "other"] IN
          \/ /\ ~IndustryNameTaken(row.name)
             /\ industries' = industries \cup {row}
             /\ industry' = [industry EXCEPT ![p] = row]
             /\ pc' = [pc EXCEPT ![p] = "location_lookup"]
             /\ UNCHANGED << args, location, generated, result >>
          \/ /\ RaiseFatal(p, "industry")
             /\ UNCHANGED industries
    /\ UNCHANGED << locations, posts, clock, calls, attempt, outcomes, sleeps,
                    catVars, auxVars >>

\* _get_or_create_industry, the miss: Industry(name=name), add, commit, refresh.
IndustryInsert(p) ==
    /\ pc[p] = "industry_insert"
    /\ LET row == [id |-> NextId(industries), name |-> args[p].industry_name,
                   description |-> "NULL", category |-> "NULL"] IN
          \/ /\ ~IndustryNameTaken(row.name)
             /\ industries' = industries \cup {row}
             /\ industry' = [industry EXCEPT ![p] = row]
             /\ pc' = [pc EXCEPT ![p] = "location_lookup"]
             /\ UNCHANGED << args, location, generated, result >>
          \/ /\ RaiseFatal(p, "industry")
             /\ UNCHANGED industries
    /\ UNCHANGED << locations, posts, clock, calls, attempt, outcomes, sleeps,
                    catVars, auxVars >>

\* _get_or_create_location, the query and .first()
\* No ORDER BY: with several rows of the name, the store returns any of them.
LocationLookup(p) ==
    /\ pc[p] = "location_lookup"
    /\ LET found == LocationByName(args[p].location_name) IN
          IF found = {}
          THEN /\ pc' = [pc EXCEPT ![p] = "location_insert"]
               /\ UNCHANGED location
          ELSE /\ \E r \in found : location' = [location EXCEPT ![p] = r]
               /\ pc' = [pc EXCEPT ![p] = "generate"]
    /\ UNCHANGED << dbVars, calls, args, industry, attempt, outcomes, sleeps,
                    generated, result, catVars, auxVars >>

\* _get_or_create_location, the miss: Location(name=name, country="Unknown"),
\* add, commit, refresh.
LocationInsert(p) ==
    /\ pc[p] = "location_insert"
    /\ LET row == [id |-> NextId(locations), name |-> args[p].location_name,
                   country |-> "Unknown"] IN
          \/ /\ ~LocationNameTaken(row.name)
             /\ locations' = locations \cup {row}
             /\ location' = [location EXCEPT ![p] = row]
             /\ pc' = [pc EXCEPT ![p] = "generate"]
             /\ UNCHANGED << args, industry, generated, result >>
          \/ /\ RaiseFatal(p, "location")
             /\ UNCHANGED locations
    /\ UNCHANGED << industries, posts, clock, calls, attempt, outcomes, sleeps,
                    catVars, auxVars >>

\* ------------------------------------------------- generate_blog_content
\* A loop that takes the attempt after the last one for the last.
IsLastAttempt_OffByOne(a) == a = max_retries

\* if attempt == self.max_retries - 1: raise
IsLastAttempt(a) == a = max_retries - 1

\* A backoff that multiplies by the zero-based loop variable.
BackoffDelay_ZeroBased(a) == retry_delay * a

\* time.sleep(self.retry_delay * (attempt + 1))
BackoffDelay(a) == retry_delay * (a + 1)

\* A generation that is started next to the location upsert, not after it.
GenerateSuccess_BeforeLocation(p) ==
    /\ pc[p] \in {"location_lookup", "generate"}
    /\ attempt[p] < max_retries
    /\ \E r \in Responses :
          generated' = [generated EXCEPT ![p] =
              [content |-> r.content, tokens_used |-> r.tokens_used,
               finish_reason |-> r.finish_reason]]
    /\ outcomes' = [outcomes EXCEPT ![p] = Append(@, "ok")]
    /\ pc' = [pc EXCEPT ![p] = "persist"]
    /\ UNCHANGED << dbVars, calls, args, industry, location, attempt, sleeps,
                    result, catVars, auxVars >>

\* A successful pass that sleeps before it returns, as the failed ones do.
GenerateSuccess_ThenSleeps(p) ==
    /\ pc[p] = "generate"
    /\ attempt[p] < max_retries
    /\ \E r \in Responses :
          generated' = [generated EXCEPT ![p] =
              [content |-> r.content, tokens_used |-> r.tokens_used,
               finish_reason |-> r.finish_reason]]
    /\ outcomes' = [outcomes EXCEPT ![p] = Append(@, "ok")]
    /\ sleeps' = [sleeps EXCEPT ![p] = Append(@, retry_delay * (attempt[p] + 1))]
    /\ pc' = [pc EXCEPT ![p] = "persist"]
    /\ UNCHANGED << dbVars, calls, args, industry, location, attempt,
                    result, catVars, auxVars >>

\* One pass of the retry loop whose request succeeds: the response is returned
\* at once, and create_blog_post goes on to build the Post.
GenerateSuccess(p) ==
    /\ pc[p] = "generate"
    /\ attempt[p] < max_retries
    /\ \E r \in Responses :
          generated' = [generated EXCEPT ![p] =
              [content |-> r.content, tokens_used |-> r.tokens_used,
               finish_reason |-> r.finish_reason]]
    /\ outcomes' = [outcomes EXCEPT ![p] = Append(@, "ok")]
    /\ pc' = [pc EXCEPT ![p] = "persist"]
    /\ UNCHANGED << dbVars, calls, args, industry, location, attempt, sleeps,
                    result, catVars, auxVars >>

\* A failure handler whose rollback takes the call's reference rows with it.
GenerateFailure_UndoUpserts(p) ==
    /\ pc[p] = "generate"
    /\ attempt[p] < max_retries
    /\ outcomes' = [outcomes EXCEPT ![p] = Append(@, "error")]
    /\ IF attempt[p] = max_retries - 1
       THEN /\ RaiseFatal(p, "generation")
            /\ industries' = industries \ {industry[p]}
            /\ locations' = locations \ {location[p]}
            /\ UNCHANGED << attempt, sleeps >>
       ELSE /\ sleeps' = [sleeps EXCEPT ![p] = Append(@, retry_delay * (attempt[p] + 1))]
            /\ attempt' = [attempt EXCEPT ![p] = @ + 1]
            /\ UNCHANGED << pc, result, args, industry, location, generated,
                            industries, locations >>
    /\ UNCHANGED << posts, clock, calls, catVars, auxVars >>

\* One pass of the retry loop whose request raises: on the last attempt the
\* exception is re-raised (and create_blog_post turns it into a 500), otherwise
\* the handler sleeps and the loop goes to the next attempt.
GenerateFailure(p) ==
    /\ pc[p] = "generate"
    /\ attempt[p] < max_retries
    /\ outcomes' = [outcomes EXCEPT ![p] = Append(@, "error")]
    /\ IF IsLastAttempt(attempt[p])
       THEN /\ RaiseFatal(p, "generation")
            /\ UNCHANGED << attempt, sleeps >>
       ELSE /\ sleeps' = [sleeps EXCEPT ![p] = Append(@, BackoffDelay(attempt[p]))]
            /\ attempt' = [attempt EXCEPT ![p] = @ + 1]
            /\ UNCHANGED << pc, result, args, industry, location, generated >>
    /\ UNCHANGED << dbVars, calls, catVars, auxVars >>

\* ------------------------------------------------------ the Post insert
\* BlogPost(industry_id=industry.id, location_id=location.id, ...)
NewPost(p) ==
    [id |-> NextId(posts),
     industry_id |-> industry[p].id,
     location_id |-> location[p].id,
     style |-> args[p].style,
     content |-> generated[p].content,
     tokens_used |-> generated[p].tokens_used,
     finish_reason |-> generated[p].finish_reason,
     created_at |-> clock]

\* A Post insert that raises after its commit has written the row.
PostInsert_RaiseAfterWrite(p) ==
    /\ pc[p] = "persist"
    /\ posts' = posts \cup {NewPost(p)}
    /\ clock' = clock + 1
    /\ RaiseFatal(p, "post_insert")
    /\ Forget(p)
    /\ UNCHANGED << industries, locations, calls, catVars, auxVars >>

\* db.add(blog_post); db.commit(); db.refresh(blog_post); return blog_post.
\* The engine is created without enabling foreign-key enforcement, so the
\* default store accepts the row whatever its industry_id and location_id.
PostInsert(p) ==
    /\ pc[p] = "persist"
    /\ \/ /\ posts' = posts \cup {NewPost(p)}
          /\ clock' = clock + 1
          /\ pc' = [pc EXCEPT ![p] = "done"]
          /\ result' = [result EXCEPT ![p] = [status |-> 200, step |-> "done"]]
          /\ Leave(p)
       \/ /\ RaiseFatal(p, "post_insert")
          /\ UNCHANGED << posts, clock >>
    /\ Forget(p)
    /\ UNCHANGED << industries, locations, calls, catVars, auxVars >>

\* --------------------------------------------------- BaseService.delete
\* An Industry.posts relationship without the delete cascade.
IndustryPosts_NoCascade(id) == {}

\* cascade="all, delete-orphan": the posts of the deleted parent go with it.
IndustryPosts(id) == { b \in posts : b.industry_id = id }
LocationPosts(id) == { b \in posts : b.location_id = id }

\* delete(db, id=id) of the service for `model`, the row being there.
delete(model, id) ==
    /\ \/ /\ model = "Industry"
          /\ \E r \in industries : r.id = id
          /\ industries' = { r \in industries : r.id # id }
          /\ posts' = posts \ IndustryPosts(id)
          /\ UNCHANGED locations
       \/ /\ model = "Location"
          /\ \E r \in locations : r.id = id
          /\ locations' = { r \in locations : r.id # id }
          /\ posts' = posts \ LocationPosts(id)
          /\ UNCHANGED industries
       \/ /\ model = "BlogPost"
          /\ \E b \in posts : b.id = id
          /\ posts' = { b \in posts : b.id # id }
          /\ UNCHANGED << industries, locations >>
    /\ UNCHANGED << clock, calls, pc, args, industry, location, attempt,
                    outcomes, sleeps, generated, result, catVars, auxVars >>

\* The table of a model, and db.query(self.model).filter(self.model.id == id)
TableOf(model) ==
    IF model = "Industry" THEN industries
    ELSE IF model = "Location" THEN locations
    ELSE posts

RowsById(model, id) == { r \in TableOf(model) : r.id = id }

\* What get gives for an id: the row (its id here), the 404 of
\* `if not obj and raise_not_found`, which no except clause of get or delete
\* catches, or None (0 here).
GetOutcome(op, model, id, raise_not_found) ==
    [op |-> op, model |-> model, id |-> id, raise_not_found |-> raise_not_found,
     status |-> IF RowsById(model, id) = {} /\ raise_not_found
                THEN HTTP_404_NOT_FOUND ELSE HTTP_200_OK,
     row |-> IF RowsById(model, id) = {} THEN 0 ELSE id]

\* get(db, id, raise_not_found)
get(model, id, raise_not_found) ==
    /\ crud' = GetOutcome("get", model, id, raise_not_found)
    /\ crud' # crud
    /\ UNCHANGED << dbVars, calls, pc, args, industry, location, attempt, outcomes,
                    sleeps, generated, result, catVars, geoReply, geoOut, scope,
                    related >>

\* delete(db, id=id, raise_not_found=...) of an id that is not there: get
\* raises the 404, or returns None and `if obj:` skips the delete.
delete_absent(model, id, raise_not_found) ==
    /\ RowsById(model, id) = {}
    /\ crud' = GetOutcome("delete", model, id, raise_not_found)
    /\ crud' # crud
    /\ UNCHANGED << dbVars, calls, pc, args, industry, location, attempt, outcomes,
                    sleeps, generated, result, catVars, geoReply, geoOut, scope,
                    related >>

\* ------------------------------------------------------- get_blog_stats
RECURSIVE SumTokens(_)
SumTokens(rows) ==
    IF rows = {} THEN 0
    ELSE LET b == CHOOSE x \in rows : TRUE IN b.tokens_used + SumTokens(rows \ {b})

\* round(float(x), 2) of the quotient num / den, in hundredths.  The means the
\* model reaches never lie halfway between two hundredths.
Round2(num, den) == (200 * num + den) \div (2 * den)

\* db.query(Industry.name, func.count(BlogPost.id)).join(BlogPost)
\*   .group_by(Industry.name), as the dict {name: count}
posts_by_industry ==
    LET joined == { << r, b >> \in industries \X posts : b.industry_id = r.id } IN
        [ n \in { j[1].name : j \in joined } |->
              Cardinality({ j \in joined : j[1].name = n }) ]

\* db.query(Location.name, func.count(BlogPost.id)).join(BlogPost)
\*   .group_by(Location.name), as the dict {name: count}
posts_by_location ==
    LET joined == { << r, b >> \in locations \X posts : b.location_id = r.id } IN
        [ n \in { j[1].name : j \in joined } |->
              Cardinality({ j \in joined : j[1].name = n }) ]

\* An average computed with integer division, before the rounding.
average_tokens_Truncated ==
    IF posts = {} THEN 0
    ELSE 100 * (SumTokens(posts) \div Cardinality(posts))

\* round(float(db.query(func.avg(BlogPost.tokens_used)).scalar() or 0), 2),
\* in hundredths of a token
average_tokens ==
    IF posts = {} THEN 0
    ELSE Round2(SumTokens(posts), Cardinality(posts))

\* db.query(BlogPost.created_at).order_by(BlogPost.created_at.desc()).first(),
\* [0] of it, or None
last_generated ==
    IF posts = {} THEN NoTime
    ELSE (CHOOSE b \in posts : \A c \in posts : c.created_at <= b.created_at).created_at

BlogStats ==
    [total_posts |-> Cardinality(posts),
     posts_by_industry |-> posts_by_industry,
     posts_by_location |-> posts_by_location,
     average_tokens |-> average_tokens,
     last_generated |-> last_generated]

\* get_blog_stats(db), on the rows as they are
get_blog_stats ==
    /\ stats = NoStats
    /\ stats' = BlogStats
    /\ UNCHANGED << dbVars, calls, pc, args, industry, location, attempt,
                    outcomes, sleeps, generated, result, catName, catResult, auxVars >>

\* ------------------------------------------------- _categorize_industry
\* Names are sequences of characters.
\* str.lower(), on the letters A to Z
LowerOf ==
    [ A |-> "a", B |-> "b", C |-> "c", D |-> "d", E |-> "e", F |-> "f", G |-> "g",
      H |-> "h", I |-> "i", J |-> "j", K |-> "k", L |-> "l", M |-> "m", N |-> "n",
      O |-> "o", P |-> "p", Q |-> "q", R |-> "r", S |-> "s", T |-> "t", U |-> "u",
      V |-> "v", W |-> "w", X |-> "x", Y |-> "y", Z |-> "z" ]

\* name.lower()
lower(name) ==
    [ i \in 1 .. Len(name) |->
        IF name[i] \in DOMAIN LowerOf THEN LowerOf[name[i]] ELSE name[i] ]

\* keyword in name_lower: the keyword occurs at position i of the text or later
RECURSIVE OccursFrom(_, _, _)
OccursFrom(keyword, text, i) ==
    IF i + Len(keyword) - 1 > Len(text) THEN FALSE
    ELSE IF SubSeq(text, i, i + Len(keyword) - 1) = keyword THEN TRUE
    ELSE OccursFrom(keyword, text, i + 1)

\* self.categories["technology"]
technology_keywords ==
    << << "s", "o", "f", "t", "w", "a", "r", "e" >>,
       << "i", "t" >>,
       << "c", "y", "b", "e", "r", "s", "e", "c", "u", "r", "i", "t", "y" >>,
       << "w", "e", "b", " ", "d", "e", "v", "e", "l", "o", "p", "m", "e",
          "n", "t" >>,
       << "m", "o", "b", "i", "l", "e", " ", "a", "p", "p", "s" >>,
       << "c", "l", "o", "u", "d", " ", "c", "o", "m", "p", "u", "t", "i",
          "n", "g" >>,
       << "a", "r", "t", "i", "f", "i", "c", "i", "a", "l", " ", "i", "n",
          "t", "e", "l", "l", "i", "g", "e", "n", "c", "e" >> >>

\* self.categories["healthcare"]
healthcare_keywords ==
    << << "m", "e", "d", "i", "c", "a", "l" >>,
       << "d", "e", "n", "t", "a", "l" >>,
       << "p", "h", "a", "r", "m", "a", "c", "y" >>,
       << "w", "e", "l", "l", "n", "e", "s", "s" >>,
       << "f", "i", "t", "n", "e", "s", "s" >>,
       << "m", "e", "n", "t", "a", "l", " ", "h", "e", "a", "l", "t", "h" >>,
       << "h", "e", "a", "l", "t", "h", "c", "a", "r", "e", " ", "t", "e",
          "c", "h", "n", "o", "l", "o", "g", "y" >> >>

\* self.categories["retail"]
retail_keywords ==
    << << "f", "a", "s", "h", "i", "o", "n" >>,
       << "e", "l", "e", "c", "t", "r", "o", "n", "i", "c", "s" >>,
       << "g", "r", "o", "c", "e", "r", "i", "e", "s" >>,
       << "f", "u", "r", "n", "i", "t", "u", "r", "e" >>,
       << "e", "-", "c", "o", "m", "m", "e", "r", "c", "e" >>,
       << "l", "u", "x", "u", "r", "y", " ", "g", "o", "o", "d", "s" >>,
       << "s", "p", "o", "r", "t", "i", "n", "g", " ", "g", "o", "o", "d",
          "s" >> >>

\* self.categories["services"]
services_keywords ==
    << << "c", "o", "n", "s", "u", "l", "t", "i", "n", "g" >>,
       << "l", "e", "g", "a", "l" >>,
       << "a", "c", "c", "o", "u", "n", "t", "i", "n", "g" >>,
       << "m", "a", "r", "k", "e", "t", "i", "n", "g" >>,
       << "d", "e", "s", "i", "g", "n" >>,
       << "c", "l", "e", "a", "n", "i", "n", "g" >>,
       << "m", "a", "i", "n", "t", "e", "n", "a", "n", "c", "e" >> >>

\* self.categories["hospitality"]
hospitality_keywords ==
    << << "r", "e", "s", "t", "a", "u", "r", "a", "n", "t", "s" >>,
       << "h", "o", "t", "e", "l", "s" >>,
       << "t", "o", "u", "r", "i", "s", "m" >>,
       << "e", "v", "e", "n", "t", "s" >>,
       << "c", "a", "t", "e", "r", "i", "n", "g" >>,
       << "t", "r", "a", "v", "e", "l" >>,
       << "e", "n", "t", "e", "r", "t", "a", "i", "n", "m", "e", "n", "t" >> >>

\* A dict that lists hospitality before services.
categories_HospitalityFirst ==
    << [category |-> "technology", keywords |-> technology_keywords],
       [category |-> "healthcare", keywords |-> healthcare_keywords],
       [category |-> "retail", keywords |-> retail_keywords],
       [category |-> "hospitality", keywords |-> hospitality_keywords],
       [category |-> "services", keywords |-> services_keywords] >>

\* self.categories, in the insertion order of the dict
categories ==
    << [category |-> "technology", keywords |-> technology_keywords],
       [category |-> "healthcare", keywords |-> healthcare_keywords],
       [category |-> "retail", keywords |-> retail_keywords],
       [category |-> "services", keywords |-> services_keywords],
       [category |-> "hospitality", keywords |-> hospitality_keywords] >>

\* any(keyword in name_lower for keyword in keywords)
AnyKeywordIn(keywords, name_lower) ==
    \E k \in DOMAIN keywords : OccursFrom(keywords[k], name_lower, 1)

\* for category, keywords in self.categories.items(): ... return category
\* and, after the loop, return "other"
RECURSIVE FirstCategory(_, _)
FirstCategory(name_lower, i) ==
    IF i > Len(categories) THEN "other"
    ELSE IF AnyKeywordIn(categories[i].keywords, name_lower) THEN categories[i].category
    ELSE FirstCategory(name_lower, i + 1)

_categorize_industry(name) == FirstCategory(lower(name), 1)

\* A call of _categorize_industry(catName)
Categorize ==
    /\ catResult = "none"
    /\ catResult' = _categorize_industry(catName)
    /\ UNCHANGED << dbVars, calls, pc, args, industry, location, attempt,
                    outcomes, sleeps, generated, result, stats, catName, auxVars >>

\* ------------------------------------------------- create_with_category
\* create_with_category(db, name=name, description=description): the category
\* is computed, then Industry(name, description, category) is added and
\* committed in one round trip.  Whatever the commit raises, the unique
\* constraint on the name included (IntegrityError), is caught by
\* `except Exception`: rollback, then HTTPException(500).
create_with_category(p) ==
    /\ Idle(p)
    /\ calls < MaxCalls
    /\ calls' = calls + 1
    /\ \E name \in CategorizedNames, description \in Descriptions :
          LET category == _categorize_industry(Spelling[name])
              row == [id |-> NextId(industries), name |-> name,
                      description |-> description, category |-> category] IN
             \/ /\ ~IndustryNameTaken(name)
                /\ industries' = industries \cup {row}
                /\ pc' = [pc EXCEPT ![p] = "done"]
                /\ result' = [result EXCEPT ![p] =
                                 [status |-> 200, step |-> "create_with_category"]]
             \/ /\ IndustryNameTaken(name)
                /\ UNCHANGED industries
                /\ pc' = [pc EXCEPT ![p] = "failed"]
                /\ result' = [result EXCEPT ![p] =
                                 [status |-> HTTP_500_INTERNAL_SERVER_ERROR,
                                  step |-> "create_with_category: IntegrityError"]]
             \/ /\ UNCHANGED industries
                /\ pc' = [pc EXCEPT ![p] = "failed"]
                /\ result' = [result EXCEPT ![p] =
                                 [status |-> HTTP_500_INTERNAL_SERVER_ERROR,
                                  step |-> "create_with_category: SQLAlchemyError"]]
    /\ Forget(p)
    /\ UNCHANGED << locations, posts, clock, args, industry, location, generated,
                    catVars, auxVars >>

\* ------------------------------------------------------ search_locations
\* Strings are sequences of characters; a dict is a function on its keys.
\* d.get(key, default)
GetOr(d, key, default) == IF key \in DOMAIN d THEN d[key] ELSE default

\* d.get(key): None and "" are both falsy and both written << >>
Get(d, key) == GetOr(d, key, << >>)

\* text.split(",")[0]
RECURSIVE FirstSegment(_)
FirstSegment(text) ==
    IF text = << >> \/ Head(text) = "," THEN << >>
    ELSE << Head(text) >> \o FirstSegment(Tail(text))

\* ", ".join(parts)
RECURSIVE Join(_)
Join(parts) ==
    IF parts = << >> THEN << >>
    ELSE IF Len(parts) = 1 THEN parts[1]
    ELSE parts[1] \o << ",", " " >> \o Join(Tail(parts))

\* x in parts
InList(x, parts) == \E i \in DOMAIN parts : parts[i] = x

PlaceKeys == << "city", "town", "village", "suburb", "municipality" >>

\* for key in [...]: if address.get(key): return address[key]
RECURSIVE FirstPlace(_, _)
FirstPlace(address, i) ==
    IF i > Len(PlaceKeys) THEN << >>
    ELSE IF Get(address, PlaceKeys[i]) # << >> THEN address[PlaceKeys[i]]
    ELSE FirstPlace(address, i + 1)

\* A place name taken from the display name whenever there is one.
_get_place_name_DisplayFirst(res) ==
    LET segment == FirstSegment(Get(res, "display_name")) IN
        IF segment # << >> THEN segment
        ELSE FirstPlace(GetOr(res, "address", << >>), 1)

_get_place_name(res) ==
    LET address == GetOr(res, "address", << >>)
        place == FirstPlace(address, 1) IN
        IF place # << >> THEN place
        ELSE FirstSegment(Get(res, "display_name"))

\* A full name that appends every part there is, present already or not.
_format_full_name_NoDedup(res) ==
    LET address == GetOr(res, "address", << >>)
        place_name == _get_place_name(res)
        state == IF Get(address, "state") # << >> THEN address["state"]
                 ELSE Get(address, "province")
        country == Get(address, "country") IN
        Join(SelectSeq(<< place_name, state, country >>, LAMBDA x : x # << >>))

_format_full_name(res) ==
    LET address == GetOr(res, "address", << >>)
        place_name == _get_place_name(res)
        parts1 == IF place_name # << >> THEN << place_name >> ELSE << >>
        state == IF Get(address, "state") # << >> THEN address["state"]
                 ELSE Get(address, "province")
        parts2 == IF state # << >> /\ ~InList(state, parts1)
                  THEN Append(parts1, state) ELSE parts1
        country == Get(address, "country")
        parts3 == IF country # << >> /\ ~InList(country, parts2)
                  THEN Append(parts2, country) ELSE parts2 IN
        Join(parts3)

\* LocationSuggestion(name=..., full_name=..., type=result.get("type", "unknown"))
LocationSuggestion(res) ==
    [name |-> _get_place_name(res),
     full_name |-> _format_full_name(res),
     type |-> GetOr(res, "type", << "u", "n", "k", "n", "o", "w", "n" >>)]

\* The except clauses of search_locations: aiohttp.ClientError gives 503, and
\* every other Exception, the HTTPException raised in the try block among
\* them, gives 500.
SearchRaised(exception) ==
    IF exception = "ClientError" THEN HTTP_503_SERVICE_UNAVAILABLE
    ELSE HTTP_500_INTERNAL_SERVER_ERROR

\* search_locations(query, limit): one GET, then the reply is reshaped.
search_locations ==
    /\ geoReply # NoReply
    /\ geoOut = NoOut
    /\ LET raised(exception) ==
               [status |-> SearchRaised(exception), suggestions |-> << >>,
                requests |-> 1] IN
          geoOut' =
             IF geoReply.kind = "client_error" THEN raised("ClientError")
             ELSE IF geoReply.status # 200 THEN raised("HTTPException")
             ELSE IF ~geoReply.valid THEN raised("ValueError")
             ELSE [status |-> HTTP_200_OK,
                   suggestions |-> [ i \in DOMAIN geoReply.results |->
                                        LocationSuggestion(geoReply.results[i]) ],
                   requests |-> 1]
    /\ UNCHANGED << dbVars, calls, pc, args, industry, location, attempt,
                    outcomes, sleeps, generated, result, catVars, geoReply,
                    scope, crud, related >>

\* ---------------------------------------------------------------- get_db
\* One `with get_db() as db:` after the other.  The body is the caller's: it
\* adds Industry rows to the session and returns or raises.
\* db = SessionLocal(); try: yield db
EnterScope ==
    /\ scope.pc \in {"unused", "exited"}
    /\ calls < MaxUses
    /\ calls' = calls + 1
    /\ scope' = [pc |-> "body", pending |-> << >>, log |-> << >>, raised |-> "nothing"]
    /\ UNCHANGED << dbVars, pc, args, industry, location, attempt, outcomes,
                    sleeps, generated, result, catVars, geoReply, geoOut, crud,
                    related >>

\* The body: db.add(Industry(name=name))
BodyAdd ==
    /\ scope.pc = "body"
    /\ Len(scope.pending) < MaxWrites
    /\ \E name \in IndustryNames :
          scope' = [scope EXCEPT !.pending = Append(@, name)]
    /\ UNCHANGED << dbVars, calls, pc, args, industry, location, attempt, outcomes,
                    sleeps, generated, result, catVars, geoReply, geoOut, crud,
                    related >>

\* The body completes: the generator goes on after the yield, to db.commit().
BodyReturns ==
    /\ scope.pc = "body"
    /\ scope' = [scope EXCEPT !.pc = "commit"]
    /\ UNCHANGED << dbVars, calls, pc, args, industry, location, attempt, outcomes,
                    sleeps, generated, result, catVars, geoReply, geoOut, crud,
                    related >>

\* An except clause too narrow for the exception the body raises.
BodyRaises_NarrowExcept ==
    /\ scope.pc = "body"
    /\ scope' = [scope EXCEPT !.pc = "close", !.raised = "Exception"]
    /\ UNCHANGED << dbVars, calls, pc, args, industry, location, attempt, outcomes,
                    sleeps, generated, result, catVars, geoReply, geoOut, crud,
                    related >>

\* The body raises an Exception (a datastore error, an HTTPException, any
\* error of the caller's code): it is thrown in at the yield, to `except Exception`.
BodyRaises ==
    /\ scope.pc = "body"
    /\ scope' = [scope EXCEPT !.pc = "rollback", !.raised = "Exception"]
    /\ UNCHANGED << dbVars, calls, pc, args, industry, location, attempt, outcomes,
                    sleeps, generated, result, catVars, geoReply, geoOut, crud,
                    related >>

\* The rows the session would write, with the ids the store would give them.
PendingRows ==
    { [id |-> NextId(industries) + i - 1, name |-> scope.pending[i],
       description |-> "NULL", category |-> "NULL"] : i \in DOMAIN scope.pending }

\* db.commit(): the pending rows are written, or the store raises (a name that
\* is taken or added twice, or any other datastore error) and nothing is written.
ScopeCommit ==
    /\ scope.pc = "commit"
    /\ \/ /\ \A i \in DOMAIN scope.pending : ~IndustryNameTaken(scope.pending[i])
          /\ \A i, j \in DOMAIN scope.pending :
                scope.pending[i] = scope.pending[j] => i = j
          /\ industries' = industries \cup PendingRows
          /\ scope' = [scope EXCEPT !.pc = "close", !.pending = << >>,
                                    !.log = Append(@, "commit")]
       \/ /\ UNCHANGED industries
          /\ scope' = [scope EXCEPT !.pc = "rollback", !.raised = "Exception"]
    /\ UNCHANGED << locations, posts, clock, calls, pc, args, industry, location,
                    attempt, outcomes, sleeps, generated, result, catVars,
                    geoReply, geoOut, crud,
                    related >>

\* except Exception: db.rollback(); raise
ScopeRollback ==
    /\ scope.pc = "rollback"
    /\ scope' = [scope EXCEPT !.pc = "close", !.pending = << >>,
                              !.log = Append(@, "rollback")]
    /\ UNCHANGED << dbVars, calls, pc, args, industry, location, attempt, outcomes,
                    sleeps, generated, result, catVars, geoReply, geoOut, crud,
                    related >>

\* finally: db.close(); the exception, if any, goes on to the caller.
ScopeClose ==
    /\ scope.pc = "close"
    /\ scope' = [scope EXCEPT !.pc = "exited", !.pending = << >>,
                              !.log = Append(@, "close")]
    /\ UNCHANGED << dbVars, calls, pc, args, industry, location, attempt, outcomes,
                    sleeps, generated, result, catVars, geoReply, geoOut, crud,
                    related >>

get_db ==
    \/ EnterScope
    \/ BodyAdd
    \/ BodyReturns
    \/ BodyRaises
    \/ ScopeCommit
    \/ ScopeRollback
    \/ ScopeClose

Init ==
    /\ industries = {}
    /\ locations = {}
    /\ posts = {}
    /\ clock = 1
    /\ calls = 0
    /\ pc = [p \in Procs |-> "idle"]
    /\ args = [p \in Procs |-> NoArgs]
    /\ industry = [p \in Procs |-> NoIndustry]
    /\ location = [p \in Procs |-> NoLocation]
    /\ attempt = [p \in Procs |-> 0]
    /\ outcomes = [p \in Procs |-> << >>]
    /\ sleeps = [p \in Procs |-> << >>]
    /\ generated = [p \in Procs |-> NoResponse]
    /\ result = [p \in Procs |-> NoResult]
    /\ stats = NoStats
    /\ catName = << >>
    /\ catResult = "none"
    /\ AuxInit

create_blog_post(p) ==
    \/ StartCall(p)
    \/ IndustryLookup(p)
    \/ IndustryInsert(p)
    \/ LocationLookup(p)
    \/ LocationInsert(p)
    \/ GenerateSuccess(p)
    \/ GenerateFailure(p)
    \/ PostInsert(p)

Ids == 1 .. MaxCalls

Next ==
    \/ \E p \in Procs : create_blog_post(p)
    \/ \E p \in Procs : create_with_category(p)
    \/ \E model \in {"Industry", "Location", "BlogPost"}, id \in Ids : delete(model, id)

Spec == Init /\ [][Next]_vars

\* Requests served one at a time, with no delete between them.
SeqNext ==
    \E p \in Procs : (\A q \in Procs \ {p} : Idle(q)) /\ create_blog_post(p)

SpecSeq == Init /\ [][SeqNext]_vars

\* ------------------------------------------- get_blog_stats on stored posts
MaxPosts == 3
TokenCounts == {100, 200, 300}

\* The Post table after MaxPosts calls have stored a post each (post i at time
\* i, with any token count) and any of the posts have been deleted again.
StatsInit ==
    /\ industries = { [id |-> 1, name |-> "Bakery", description |-> "NULL",
                       category |-> "NULL"],
                      [id |-> 2, name |-> "Plumbing", description |-> "NULL",
                       category |-> "NULL"] }
    /\ locations = { [id |-> 1, name |-> "Austin", country |-> "Unknown"],
                     [id |-> 2, name |-> "Denver", country |-> "Unknown"] }
    /\ \E kept \in SUBSET (1 .. MaxPosts) :
       \E tokens \in [kept -> TokenCounts] :
          posts = { [id |-> i,
                     industry_id |-> 1 + (i % 2),
                     location_id |-> 2 - (i % 2),
                     style |-> "professional",
                     content |-> "text",
                     tokens_used |-> tokens[i],
                     finish_reason |-> "stop",
                     created_at |-> i] : i \in kept }
    /\ clock = MaxPosts + 1
    /\ calls = MaxPosts
    /\ pc = [p \in Procs |-> "idle"]
    /\ args = [p \in Procs |-> NoArgs]
    /\ industry = [p \in Procs |-> NoIndustry]
    /\ location = [p \in Procs |-> NoLocation]
    /\ attempt = [p \in Procs |-> 0]
    /\ outcomes = [p \in Procs |-> << >>]
    /\ sleeps = [p \in Procs |-> << >>]
    /\ generated = [p \in Procs |-> NoResponse]
    /\ result = [p \in Procs |-> NoResult]
    /\ stats = NoStats
    /\ catName = << >>
    /\ catResult = "none"
    /\ AuxInit

StatsNext == get_blog_stats

SpecStats == StatsInit /\ [][StatsNext]_vars

\* --------------------------------------------- _categorize_industry on names
MaxUnits == 3

WebDevelopmentStudio == << "W", "e", "b", " ", "D", "e", "v", "e", "l", "o", "p", "m", "e", "n", "t", " ", "S", "t", "u", "d", "i", "o" >>
FamilyDentistry == << "F", "a", "m", "i", "l", "y", " ", "D", "e", "n", "t", "i", "s", "t", "r", "y" >>
LemonadeStand == << "L", "e", "m", "o", "n", "a", "d", "e", " ", "S", "t", "a", "n", "d" >>

\* The pieces the names given to the categorizer are made of.
Units ==
    { << "i" >>, << "T" >>, << " " >>, << "d", "e", "n" >>, << "t", "a", "l" >>,
      << "L", "e", "g", "a", "l" >>, << "F", "a", "s", "h", "i", "o", "n" >>, << "h", "o", "t", "e", "l", "s" >>,
      << "w", "e", "b" >>, << "d", "e", "v", "e", "l", "o", "p", "m", "e", "n", "t" >> }

RECURSIVE Concat(_)
Concat(pieces) == IF pieces = << >> THEN << >> ELSE Head(pieces) \o Concat(Tail(pieces))

CatNames ==
    { Concat(u) : u \in UNION { [1 .. n -> Units] : n \in 1 .. MaxUnits } }
        \cup { WebDevelopmentStudio, FamilyDentistry, LemonadeStand }

CatInit ==
    /\ industries = {}
    /\ locations = {}
    /\ posts = {}
    /\ clock = 1
    /\ calls = 0
    /\ pc = [p \in Procs |-> "idle"]
    /\ args = [p \in Procs |-> NoArgs]
    /\ industry = [p \in Procs |-> NoIndustry]
    /\ location = [p \in Procs |-> NoLocation]
    /\ attempt = [p \in Procs |-> 0]
    /\ outcomes = [p \in Procs |-> << >>]
    /\ sleeps = [p \in Procs |-> << >>]
    /\ generated = [p \in Procs |-> NoResponse]
    /\ result = [p \in Procs |-> NoResult]
    /\ stats = NoStats
    /\ catName \in CatNames
    /\ catResult = "none"
    /\ AuxInit

CatNext == Categorize

SpecCat == CatInit /\ [][CatNext]_vars

\* --------------------------------------- search_locations on provider replies
MaxKeys == 3

Austin == << "A", "u", "s", "t", "i", "n" >>
Texas == << "T", "e", "x", "a", "s" >>
USA == << "U", "S", "A" >>
Words == { << >>, Austin, Texas, USA }
AddressKeys == { "city", "town", "village", "suburb", "municipality",
                 "state", "province", "country" }
Addresses ==
    UNION { [K -> Words] : K \in { k \in SUBSET AddressKeys : Cardinality(k) <= MaxKeys } }
DisplayNames == { << "U", "S", "A", ",", " ", "X" >>, << ",", "X" >> }
Types == { << "c", "i", "t", "y" >> }

\* The entry of a dict for a key that is there (o = {value}) or not (o = {}).
Entry(key, o) == [ k \in (IF o = {} THEN {} ELSE {key}) |-> CHOOSE x \in o : TRUE ]
Optional(S) == { {} } \cup { {x} : x \in S }

GeoResults ==
    { Entry("address", a) @@ Entry("display_name", d) @@ Entry("type", t) :
        a \in Optional(Addresses), d \in Optional(DisplayNames), t \in Optional(Types) }

AustinTexasUSA ==
    [address |-> [city |-> Austin, state |-> Texas, country |-> USA]]

GeoReplies ==
    { [kind |-> "client_error", status |-> 0, valid |-> FALSE, results |-> << >>] }
    \cup { [kind |-> "response", status |-> st, valid |-> v, results |-> << >>] :
              st \in {200, 201, 404, 503}, v \in BOOLEAN }
    \cup { [kind |-> "response", status |-> 200, valid |-> TRUE, results |-> << r >>] :
              r \in GeoResults }
    \cup { [kind |-> "response", status |-> 200, valid |-> TRUE,
            results |-> << AustinTexasUSA, r >>] :
              r \in { g \in GeoResults : DOMAIN g = {"display_name"} } }

GeoInit ==
    /\ industries = {}
    /\ locations = {}
    /\ posts = {}
    /\ clock = 1
    /\ calls = 0
    /\ pc = [p \in Procs |-> "idle"]
    /\ args = [p \in Procs |-> NoArgs]
    /\ industry = [p \in Procs |-> NoIndustry]
    /\ location = [p \in Procs |-> NoLocation]
    /\ attempt = [p \in Procs |-> 0]
    /\ outcomes = [p \in Procs |-> << >>]
    /\ sleeps = [p \in Procs |-> << >>]
    /\ generated = [p \in Procs |-> NoResponse]
    /\ result = [p \in Procs |-> NoResult]
    /\ stats = NoStats
    /\ catName = << >>
    /\ catResult = "none"
    /\ geoReply \in GeoReplies
    /\ geoOut = NoOut
    /\ scope = NoScope
    /\ crud = NoCrud
    /\ related = NoRelated

GeoNext == search_locations

SpecGeo == GeoInit /\ [][GeoNext]_vars

\* ------------------------------------------------- get_db, use after use
DbNext == get_db

SpecDb == Init /\ [][DbNext]_vars

\* --------------------------------------- generic get and delete on stored rows
Models == { "Industry", "Location", "BlogPost" }
CrudIds == 1 .. MaxPosts + 1

CrudNext ==
    \/ \E model \in Models, id \in CrudIds : delete(model, id)
    \/ \E model \in Models, id \in CrudIds, raise_not_found \in BOOLEAN :
          delete_absent(model, id, raise_not_found)
    \/ \E model \in Models, id \in CrudIds, raise_not_found \in BOOLEAN :
          get(model, id, raise_not_found)

SpecCrud == StatsInit /\ [][CrudNext]_vars

\* ------------------------------------------- get_related_industries
MaxLimit == 2

\* The Industry rows the table can hold when get_related_industries is called:
\* rows of _get_or_create_industry (no description, no category) and rows of
\* create_with_category (the category _categorize_industry gives the name).
StoredIndustries ==
    { [id |-> 1, name |-> "Bakery", description |-> "NULL", category |-> "NULL"],
      [id |-> 2, name |-> "Plumbing", description |-> "NULL", category |-> "NULL"],
      [id |-> 3, name |-> "Legal Aid", description |-> "about",
       category |-> "services"],
      [id |-> 4, name |-> "Cleaning", description |-> "NULL",
       category |-> "services"],
      [id |-> 5, name |-> "Consulting", description |-> "about",
       category |-> "services"],
      [id |-> 6, name |-> "Catering", description |-> "NULL",
       category |-> "hospitality"] }

\* The industry_name arguments of the callers.
RelatedNames == { r.name : r \in StoredIndustries }

\* db.query(Industry).filter(Industry.category == industry.category,
\*                           Industry.name != industry_name)
\* (a category of None is compared with IS NULL)
SameCategoryOtherName(named, industry_name) ==
    { r \in industries : r.category = named.category /\ r.name # industry_name }

\* .limit(limit).all(): there is no ORDER BY, so any `limit` of the rows, and
\* all of them when there are no more than `limit`.
Limited(rows, limit) ==
    { some \in SUBSET rows :
        Cardinality(some) = IF Cardinality(rows) < limit THEN Cardinality(rows)
                            ELSE limit }

\* get_related_industries(db, industry_name, limit): the HTTPException(404) of
\* a missing name is raised inside the try, so `except Exception` catches it
\* and raises HTTPException(500) in its place.
get_related_industries ==
    /\ \E industry_name \in RelatedNames, limit \in 0 .. MaxLimit :
          \/ /\ IndustryByName(industry_name) = {}
             /\ related' = [industry_name |-> industry_name, limit |-> limit,
                            status |-> HTTP_500_INTERNAL_SERVER_ERROR,
                            rows |-> {}]
          \/ \E named \in IndustryByName(industry_name) :
             \E rows \in Limited(SameCategoryOtherName(named, industry_name),
                                 limit) :
                related' = [industry_name |-> industry_name, limit |-> limit,
                            status |-> HTTP_200_OK, rows |-> rows]
    /\ UNCHANGED << dbVars, calls, pc, args, industry, location, attempt,
                    outcomes, sleeps, generated, result, catVars, geoReply,
                    geoOut, scope, crud >>

RelatedInit ==
    /\ industries \in SUBSET StoredIndustries
    /\ locations = {}
    /\ posts = {}
    /\ clock = 1
    /\ calls = 0
    /\ pc = [p \in Procs |-> "idle"]
    /\ args = [p \in Procs |-> NoArgs]
    /\ industry = [p \in Procs |-> NoIndustry]
    /\ location = [p \in Procs |-> NoLocation]
    /\ attempt = [p \in Procs |-> 0]
    /\ outcomes = [p \in Procs |-> << >>]
    /\ sleeps = [p \in Procs |-> << >>]
    /\ generated = [p \in Procs |-> NoResponse]
    /\ result = [p \in Procs |-> NoResult]
    /\ stats = NoStats
    /\ catName = << >>
    /\ catResult = "none"
    /\ AuxInit

RelatedNext == get_related_industries

SpecRelated == RelatedInit /\ [][RelatedNext]_vars

\* ------------------------------------------------------------- claims
AllErrors(p) ==
    /\ outcomes[p] # << >>
    /\ \A i \in DOMAIN outcomes[p] : outcomes[p][i] = "error"

\* C1: against a provider that fails on every attempt, generate_blog_content
\* issues exactly 3 upstream requests and then propagates the failure of the
\* third to its caller; it never issues a 4th request and never returns a result.
C1_ExhaustedAfterThree ==
    \A p \in Procs :
        /\ Len(outcomes[p]) <= 3
        /\ AllErrors(p) =>
              /\ pc[p] \in {"generate", "failed"}
              /\ generated[p] = NoResponse
              /\ (pc[p] = "failed") <=> (Len(outcomes[p]) = 3)
              /\ pc[p] = "failed" => result[p] = [status |-> 500, step |-> "generation"]

C1_Witness ==
    \E p \in Procs :
        /\ pc[p] = "failed"
        /\ outcomes[p] = << "error", "error", "error" >>
        /\ result[p].step = "generation"

Errors(p) == Cardinality({ i \in DOMAIN outcomes[p] : outcomes[p][i] = "error" })

\* C2: the sleep after failed attempt n (n < 3) is 1*n seconds and no sleep
\* follows the final attempt; against a provider that fails on attempts 1 and 2
\* and succeeds on attempt 3 the client returns the success result after sleeps
\* of exactly 1 and 2 seconds (3 seconds in all).
C2_LinearBackoff ==
    \A p \in Procs :
        /\ \A n \in DOMAIN sleeps[p] : sleeps[p][n] = 1 * n
        /\ Len(sleeps[p]) = (IF Errors(p) < 3 THEN Errors(p) ELSE 2)
        /\ outcomes[p] = << "error", "error", "ok" >> =>
              /\ pc[p] = "persist"
              /\ generated[p] \in Responses
              /\ sleeps[p] = << 1, 2 >>
              /\ SumSeq(sleeps[p]) = 3

C2_Witness ==
    \E p \in Procs :
        /\ outcomes[p] = << "error", "error", "ok" >>
        /\ pc[p] = "persist"
        /\ sleeps[p] = << 1, 2 >>

RowsNamed(rows, name) == { r \in rows : r.name = name }

C3_AtMostOneRowPerName ==
    /\ \A n \in IndustryNames : Cardinality(RowsNamed(industries, n)) <= 1
    /\ \A n \in LocationNames : Cardinality(RowsNamed(locations, n)) <= 1

C3_UpsertStep ==
    /\ industries \subseteq industries'
    /\ locations \subseteq locations'
    /\ \A p \in Procs :
          /\ (pc[p] \in {"industry_lookup", "industry_insert"}
                /\ pc'[p] = "location_lookup") =>
                LET old == RowsNamed(industries, args[p].industry_name) IN
                   /\ industry'[p].name = args[p].industry_name
                   /\ IF old = {}
                      THEN /\ industry'[p] \notin industries
                           /\ industries' = industries \cup {industry'[p]}
                      ELSE /\ industry'[p] \in old
                           /\ industries' = industries
          /\ (pc[p] \in {"location_lookup", "location_insert"}
                /\ pc'[p] = "generate") =>
                LET old == RowsNamed(locations, args[p].location_name) IN
                   /\ location'[p].name = args[p].location_name
                   /\ IF old = {}
                      THEN /\ location'[p] \notin locations
                           /\ locations' = locations \cup {location'[p]}
                      ELSE /\ location'[p] \in old
                           /\ locations' = locations

\* C3: under sequential invocation, an upsert of a name with no row inserts
\* exactly one row and returns it; an upsert of a name that has a row returns
\* that row and inserts nothing; rows stay, so every later call gets the same
\* row and the number of rows with the name stays 1.
C3_SequentialUpsert == [](C3_AtMostOneRowPerName) /\ [][C3_UpsertStep]_vars

\* A second call has been handed the row of the post the first call stored.
C3_Witness ==
    \E p \in Procs :
        /\ calls = 2
        /\ pc[p] = "persist"
        /\ industries = {industry[p]}
        /\ locations = {location[p]}
        /\ \E b \in posts : b.industry_id = industry[p].id /\ b.location_id = location[p].id

C5_NoDanglingPost ==
    \A b \in posts :
        /\ b.industry_id # 0
        /\ b.location_id # 0
        /\ \E r \in industries : r.id = b.industry_id
        /\ \E r \in locations : r.id = b.location_id

\* C6: two create_blog_post calls for one new location name are not serialized:
\* a handler that has missed on the lookup can always commit its insert,
\* whatever rows of that name other handlers have committed since.
C6_LocationInsertNeverRefused ==
    \A p \in Procs :
        pc[p] = "location_insert" =>
            ENABLED (LocationInsert(p) /\ pc'[p] = "generate")

\* Both handlers missed on the lookup, both inserted: two rows of one name.
C6_Witness ==
    /\ \E r1, r2 \in locations : r1.id # r2.id /\ r1.name = r2.name
    /\ \A p \in Procs : pc[p] = "generate"
    /\ location[1].name = location[2].name
    /\ location[1].id # location[2].id

Computed == stats.total_posts # -1

LatestCreatedAt == Max({ b.created_at : b \in posts })

\* C9 as stated: average_tokens is 0 with no Posts and otherwise exactly the
\* arithmetic mean of tokens_used; last_generated is None exactly with no Posts
\* and otherwise the greatest created_at.
C9_ExactMean ==
    Computed =>
        /\ posts = {} => stats.average_tokens = 0
        /\ posts # {} =>
              stats.average_tokens * Cardinality(posts) = 100 * SumTokens(posts)
        /\ (stats.last_generated = NoTime) <=> (posts = {})
        /\ posts # {} => stats.last_generated = LatestCreatedAt

\* C9, amended: average_tokens is 0 with no Posts and otherwise the arithmetic
\* mean of tokens_used rounded to 2 decimals (the hundredth nearest to the mean:
\* 100, 200, 300 give 200.00 and 100, 100, 200 give 133.33); last_generated is
\* None exactly with no Posts and otherwise the greatest created_at.
C9_RoundedMean ==
    Computed =>
        LET n == Cardinality(posts)
            err == stats.average_tokens * n - 100 * SumTokens(posts) IN
        /\ posts = {} => stats.average_tokens = 0
        /\ posts # {} => (2 * err <= n /\ -2 * err <= n)
        /\ { b.tokens_used : b \in posts } = {100, 200, 300} /\ n = 3 =>
              stats.average_tokens = 20000
        /\ (stats.last_generated = NoTime) <=> (posts = {})
        /\ posts # {} => stats.last_generated = LatestCreatedAt

\* The statistics of posts with 100, 200 and 300 tokens, the oldest deleted or not.
C9_Witness ==
    /\ Computed
    /\ Cardinality(posts) = 3
    /\ { b.tokens_used : b \in posts } = {100, 200, 300}
    /\ stats.average_tokens = 20000
    /\ stats.last_generated = 3

CountIn(byName, n) == IF n \in DOMAIN byName THEN byName[n] ELSE 0

\* C10: a successful create_blog_post(I, L, topic, S) stores exactly one new
\* Post whose Industry has name I, whose Location has name L and whose style is
\* S, and raises posts_by_industry[I] by exactly 1, leaving the count of every
\* other industry name as it was.
C10_RoundTrip ==
    [][ \A p \in Procs :
          (pc[p] = "persist" /\ pc'[p] = "done") =>
             /\ \E b \in posts' \ posts :
                   /\ posts' = posts \cup {b}
                   /\ b.style = args[p].style
                   /\ \E r \in industries' :
                         r.id = b.industry_id /\ r.name = args[p].industry_name
                   /\ \E r \in locations' :
                         r.id = b.location_id /\ r.name = args[p].location_name
             /\ \A n \in IndustryNames :
                   CountIn(posts_by_industry', n) =
                      CountIn(posts_by_industry, n)
                         + (IF n = args[p].industry_name THEN 1 ELSE 0) ]_vars

Contains(text, word) ==
    \E i \in 1 .. Len(text) - Len(word) + 1 :
        \A j \in 1 .. Len(word) : text[i + j - 1] = word[j]

\* C7: _categorize_industry returns "technology" for "Web Development Studio",
\* "healthcare" for "Family Dentistry" and "other" for "Lemonade Stand".
C7_Examples ==
    catResult # "none" =>
        /\ catName = WebDevelopmentStudio => catResult = "technology"
        /\ catName = FamilyDentistry => catResult = "healthcare"
        /\ catName = LemonadeStand => catResult = "other"

CategoryOrder == << "technology", "healthcare", "retail", "services", "hospitality" >>

Matches(c, text) ==
    \E i \in DOMAIN categories :
        /\ categories[i].category = c
        /\ \E k \in DOMAIN categories[i].keywords :
              Contains(text, categories[i].keywords[k])

\* C8: for every name, _categorize_industry returns the first category, in the
\* order technology, healthcare, retail, services, hospitality, that has a
\* keyword occurring in the lower-cased name, and "other" exactly when no
\* keyword of any category occurs; a name with "it" in it is technology.
C8_FirstMatchWins ==
    catResult # "none" =>
        LET low == lower(catName) IN
        /\ (catResult = "other") <=>
              (\A i \in 1 .. 5 : ~Matches(CategoryOrder[i], low))
        /\ \A i \in 1 .. 5 :
              (catResult = CategoryOrder[i]) <=>
                  /\ Matches(CategoryOrder[i], low)
                  /\ \A j \in 1 .. i - 1 : ~Matches(CategoryOrder[j], low)
        /\ Contains(low, << "i", "t" >>) => catResult = "technology"

\* A name written with capitals that matches healthcare and services keywords
\* and no technology keyword.
C8_Witness ==
    /\ catResult = "healthcare"
    /\ catName # lower(catName)
    /\ Matches("services", lower(catName))
    /\ Matches("healthcare", lower(catName))

\* The first of the place keys with a non-empty value in the address, or 0.
FirstPlaceKey(address) ==
    LET there == { i \in DOMAIN PlaceKeys :
                     PlaceKeys[i] \in DOMAIN address /\ address[PlaceKeys[i]] # << >> } IN
        IF there = {} THEN 0 ELSE CHOOSE i \in there : \A j \in there : i <= j

\* The text before the first comma of the display name (all of it without one).
BeforeComma(text) ==
    LET n == CHOOSE k \in 0 .. Len(text) :
                 /\ \A j \in 1 .. k : text[j] # ","
                 /\ k = Len(text) \/ text[k + 1] = "," IN
        SubSeq(text, 1, n)

ExpectedName(res) ==
    LET address == IF "address" \in DOMAIN res THEN res["address"] ELSE << >>
        display == IF "display_name" \in DOMAIN res THEN res["display_name"] ELSE << >>
        k == FirstPlaceKey(address) IN
        IF k # 0 THEN address[PlaceKeys[k]] ELSE BeforeComma(display)

\* The parts that are there, each once, in the order given.
RECURSIVE EachOnce(_)
EachOnce(parts) ==
    IF parts = << >> THEN << >>
    ELSE LET front == SubSeq(parts, 1, Len(parts) - 1)
             last == parts[Len(parts)] IN
         IF last = << >> \/ \E i \in DOMAIN front : front[i] = last
         THEN EachOnce(front)
         ELSE Append(EachOnce(front), last)

ExpectedFullName(res) ==
    LET address == IF "address" \in DOMAIN res THEN res["address"] ELSE << >>
        value(key) == IF key \in DOMAIN address THEN address[key] ELSE << >>
        state == IF value("state") # << >> THEN value("state") ELSE value("province") IN
        Join(EachOnce(<< ExpectedName(res), state, value("country") >>))

AustinCommaTexasCommaUSA ==
    << "A", "u", "s", "t", "i", "n", ",", " ", "T", "e", "x", "a", "s", ",", " ", "U", "S", "A" >>

\* C11: every suggestion's name is the first non-empty of city, town, village,
\* suburb, municipality of its result's address, or else the first
\* comma-separated segment of display_name; its full_name joins with ", " that
\* name, the state (or province) and the country, leaving out a part that is
\* absent or already there; city Austin, state Texas, country USA give
\* "Austin" and "Austin, Texas, USA".
C11_SuggestionNames ==
    geoOut.status = 200 =>
        /\ Len(geoOut.suggestions) = Len(geoReply.results)
        /\ \A i \in DOMAIN geoReply.results :
              /\ geoOut.suggestions[i].name = ExpectedName(geoReply.results[i])
              /\ geoOut.suggestions[i].full_name = ExpectedFullName(geoReply.results[i])
              /\ geoReply.results[i] = AustinTexasUSA =>
                    /\ geoOut.suggestions[i].name = Austin
                    /\ geoOut.suggestions[i].full_name = AustinCommaTexasCommaUSA

\* A reply with the example and a result that has a display name only.
C11_Witness ==
    /\ geoOut.status = 200
    /\ \E i \in DOMAIN geoReply.results :
          /\ geoReply.results[i] = AustinTexasUSA
          /\ geoOut.suggestions[i].full_name = AustinCommaTexasCommaUSA
    /\ \E i \in DOMAIN geoReply.results :
          /\ geoOut.suggestions[i].name = << "U", "S", "A" >>
          /\ geoOut.suggestions[i].full_name = << "U", "S", "A" >>

\* C12: one request and no more; a connectivity error and a response that is
\* not 2xx reach the caller as 503, and only a malformed response reaches the
\* caller as 500.
C12_UnavailableIs503 ==
    geoOut # NoOut =>
        LET success == geoReply.kind = "response"
                          /\ geoReply.status >= 200 /\ geoReply.status <= 299 IN
        /\ geoOut.requests = 1
        /\ ~success => geoOut.status = 503
        /\ geoOut.status = 500 => (success /\ ~geoReply.valid)

\* C13: an insert that the uniqueness constraint refuses (the Industry insert
\* of create_blog_post for a name that is taken by now, create_with_category
\* with a name that exists) leaves the stored rows as they were and gives the
\* caller a conflict (409), not a 500.
C13_ConflictIs409 ==
    [][ \A p \in Procs :
          LET refused ==
                 \/ /\ pc[p] = "industry_insert"
                    /\ IndustryNameTaken(args[p].industry_name)
                    /\ pc'[p] = "failed"
                 \/ /\ Idle(p)
                    /\ pc'[p] = "failed"
                    /\ result'[p].step = "create_with_category: IntegrityError" IN
          refused => /\ result'[p].status = 409
                     /\ industries' = industries
                     /\ locations' = locations
                     /\ posts' = posts ]_vars

\* The place of each position of create_blog_post in the order of its steps.
StepOf ==
    [ industry_lookup |-> 1, industry_insert |-> 1, location_lookup |-> 2,
      location_insert |-> 2, generate |-> 3, persist |-> 4, done |-> 5 ]

\* C14: within a call the steps go industry upsert, location upsert,
\* generation (with its retries), Post insert, in that order and one after the
\* other; a generation request is only made with both upserts returned, their
\* rows committed when the upsert returned; a Post is only inserted by a call
\* whose generation has returned a response.
C14_StepsInOrder ==
    [][ /\ \A p \in Procs :
             /\ (~Idle(p) /\ pc'[p] # "failed") =>
                    /\ StepOf[pc'[p]] >= StepOf[pc[p]]
                    /\ StepOf[pc'[p]] <= StepOf[pc[p]] + 1
             /\ (~Idle(p) /\ pc[p] # "location_lookup" /\ pc'[p] = "location_lookup") =>
                    /\ industry'[p].name = args[p].industry_name
                    /\ industry'[p] \in industries'
             /\ (~Idle(p) /\ pc[p] # "generate" /\ pc'[p] = "generate") =>
                    /\ location'[p].name = args[p].location_name
                    /\ location'[p] \in locations'
             /\ Len(outcomes'[p]) > Len(outcomes[p]) =>
                    /\ pc[p] = "generate"
                    /\ Len(outcomes'[p]) = Len(outcomes[p]) + 1
                    /\ industry[p] # NoIndustry
                    /\ location[p] # NoLocation
                    /\ posts' = posts
             /\ (pc[p] = "persist" /\ pc'[p] = "done") =>
                    /\ generated[p] \in Responses
                    /\ outcomes[p] # << >>
                    /\ outcomes[p][Len(outcomes[p])] = "ok"
        /\ ~(posts' \subseteq posts) =>
             \E p \in Procs : pc[p] = "persist" /\ pc'[p] = "done" ]_vars

\* A call about to insert its Post, after a retry, with both of its rows stored.
C14_Witness ==
    \E p \in Procs :
        /\ pc[p] = "persist"
        /\ outcomes[p] = << "error", "ok" >>
        /\ industry[p] \in industries
        /\ location[p] \in locations
        /\ generated[p] \in Responses

\* Rows are inserted and deleted, never rewritten.
RowsKept(old, new) == \A r \in old : r \in new \/ ~\E n \in new : n.id = r.id

\* C15: an upsert that finds a row of the name returns it, inserting nothing
\* and changing no field of any row; an upsert that finds none inserts an
\* Industry with the name only (description and category null) or a Location
\* with the name and country "Unknown"; a category is stored by
\* create_with_category only, and it is _categorize_industry(name).
C15_UpsertFrame ==
    [][ /\ RowsKept(industries, industries')
        /\ RowsKept(locations, locations')
        /\ \A p \in Procs :
             /\ (pc[p] = "industry_lookup" /\ pc'[p] = "location_lookup") =>
                    /\ industry'[p] \in industries
                    /\ industry'[p].name = args[p].industry_name
                    /\ industries' = industries /\ locations' = locations
             /\ (pc[p] = "location_lookup" /\ pc'[p] = "generate") =>
                    /\ location'[p] \in locations
                    /\ location'[p].name = args[p].location_name
                    /\ industries' = industries /\ locations' = locations
             /\ (pc[p] = "industry_insert" /\ pc'[p] = "location_lookup") =>
                    /\ industries' \ industries = { industry'[p] }
                    /\ industry'[p].name = args[p].industry_name
                    /\ industry'[p].description = "NULL"
                    /\ industry'[p].category = "NULL"
                    /\ locations' = locations
             /\ (pc[p] = "location_insert" /\ pc'[p] = "generate") =>
                    /\ locations' \ locations = { location'[p] }
                    /\ location'[p].name = args[p].location_name
                    /\ location'[p].country = "Unknown"
                    /\ industries' = industries
        /\ \A r \in industries' \ industries :
             r.category # "NULL" =>
                /\ \E p \in Procs :
                      /\ Idle(p)
                      /\ result'[p] = [status |-> 200, step |-> "create_with_category"]
                /\ r.category = _categorize_industry(Spelling[r.name])
                /\ r.name = "Legal Aid" => r.category = "services"
                /\ r.name = "Bakery" => r.category = "other" ]_vars

\* An upsert has returned, as it is, the row create_with_category stored with
\* a description, and the other upsert has inserted its row.
C15_Witness ==
    \E p \in Procs :
        /\ pc[p] = "generate"
        /\ industry[p] \in industries
        /\ industry[p].category = "other"
        /\ industry[p].description = "about"
        /\ location[p].country = "Unknown"
        /\ location[p] \in locations

\* C16: each upsert commits on its own: the row it inserts is stored at the
\* step that inserts it, before any generation request; and the step by which a
\* call fails in generation (third failed attempt) or at the Post insert leaves
\* the Industry and Location rows, those the call inserted among them, stored,
\* adds no Post and gives the caller a 500.
C16_UpsertsSurviveFailure ==
    [][ \A p \in Procs :
          /\ (pc[p] = "industry_insert" /\ pc'[p] = "location_lookup") =>
                 /\ industry'[p] \in industries' \ industries
                 /\ outcomes[p] = << >>
          /\ (pc[p] = "location_insert" /\ pc'[p] = "generate") =>
                 /\ location'[p] \in locations' \ locations
                 /\ outcomes[p] = << >>
          /\ (pc[p] \in {"generate", "persist"} /\ pc'[p] = "failed") =>
                 /\ industries' = industries
                 /\ locations' = locations
                 /\ posts' = posts
                 /\ result'[p].status = 500
                 /\ pc[p] = "generate" => outcomes'[p] = << "error", "error", "error" >> ]_vars

\* The only call made has inserted an Industry and a Location, has failed on
\* all 3 attempts, and both rows are stored, with no Post.
C16_Witness ==
    \E p \in Procs :
        /\ calls = 1
        /\ pc[p] = "failed"
        /\ result[p] = [status |-> 500, step |-> "generation"]
        /\ Cardinality(industries) = 1
        /\ Cardinality(locations) = 1
        /\ posts = {}

C17_AtSuccess ==
    \A p \in Procs :
        /\ \A i \in DOMAIN outcomes[p] : outcomes[p][i] = "ok" => i = Len(outcomes[p])
        /\ pc[p] = "generate" =>
              /\ Len(outcomes[p]) = attempt[p]
              /\ \A i \in DOMAIN outcomes[p] : outcomes[p][i] = "error"
              /\ generated[p] = NoResponse
        /\ (outcomes[p] # << >> /\ outcomes[p][Len(outcomes[p])] = "ok") =>
              LET k == Len(outcomes[p]) IN
              /\ k >= 1 /\ k <= 3
              /\ Len(sleeps[p]) = k - 1
              /\ pc[p] = "persist"
              /\ generated[p] \in Responses

C17_AfterSuccess ==
    \A p \in Procs :
        (outcomes[p] # << >> /\ outcomes[p][Len(outcomes[p])] = "ok") =>
            /\ outcomes'[p] \in { outcomes[p], << >> }
            /\ sleeps'[p] \in { sleeps[p], << >> }
            /\ generated'[p] \in { generated[p], NoResponse }

\* C17: one upstream request per attempt, and the first success ends the loop:
\* with the first success at attempt k there are k requests and k-1 sleeps, the
\* result is a response of the provider whole (content, tokens_used and
\* finish_reason together), and no request or sleep follows.
C17_ReturnsAtFirstSuccess == [](C17_AtSuccess) /\ [][C17_AfterSuccess]_vars

\* A first attempt has succeeded: one request, no sleep, the response in hand.
C17_Witness ==
    \E p \in Procs :
        /\ outcomes[p] = << "ok" >>
        /\ sleeps[p] = << >>
        /\ attempt[p] = 0
        /\ generated[p] = [content |-> "text-b", tokens_used |-> 200,
                           finish_reason |-> "length"]

C18_ClosedAfterCommitOrRollback ==
    /\ scope.pc = "close" => scope.log \in { << "commit" >>, << "rollback" >> }
    /\ scope.pc = "exited" =>
          /\ scope.log \in { << "commit", "close" >>, << "rollback", "close" >> }
          /\ scope.pending = << >>
          /\ (scope.log[1] = "commit") <=> (scope.raised = "nothing")
          /\ (scope.log[1] = "rollback") <=> (scope.raised = "Exception")

C18_OnlyCommitWrites ==
    /\ industries' # industries =>
          /\ scope.pc = "commit" /\ scope'.log = << "commit" >>
          /\ industries \subseteq industries'
          /\ { r.name : r \in industries' \ industries } =
                { scope.pending[i] : i \in DOMAIN scope.pending }
    /\ (scope.pc # "exited" /\ scope'.pc = "exited") => scope'.raised = scope.raised

C19_CascadeAndNotFound ==
    [][ /\ industries' # industries =>
             \E r \in industries :
                 /\ industries' = industries \ {r}
                 /\ posts' = { b \in posts : b.industry_id # r.id }
                 /\ locations' = locations
        /\ locations' # locations =>
             \E r \in locations :
                 /\ locations' = locations \ {r}
                 /\ posts' = { b \in posts : b.location_id # r.id }
                 /\ industries' = industries
        /\ (posts' # posts /\ industries' = industries /\ locations' = locations) =>
             \E b \in posts : posts' = posts \ {b}
        /\ crud' # crud =>
             LET there == \E r \in (CASE crud'.model = "Industry" -> industries
                                       [] crud'.model = "Location" -> locations
                                       [] OTHER -> posts) : r.id = crud'.id IN
             /\ industries' = industries /\ locations' = locations /\ posts' = posts
             /\ crud'.op = "delete" => ~there
             /\ (~there /\ crud'.raise_not_found) =>
                    crud'.status = 404 /\ crud'.row = 0
             /\ (~there /\ ~crud'.raise_not_found) =>
                    crud'.status = 200 /\ crud'.row = 0
             /\ there => crud'.status = 200 /\ crud'.row = crud'.id ]_vars

\* Industry 1 has been deleted, the posts of Industry 2 are still there, and a
\* get of Industry 1 has failed with 404.
C19_Witness ==
    /\ { r.id : r \in industries } = {2}
    /\ { b.industry_id : b \in posts } = {2}
    /\ Cardinality(posts) = 2
    /\ crud = [op |-> "get", model |-> "Industry", id |-> 1,
               raise_not_found |-> TRUE, status |-> 404, row |-> 0]

\* C20: no two stored Industry rows have one name; a create_blog_post that
\* missed on the lookup and finds the name taken when it inserts (another
\* create_blog_post or a create_with_category got there first) cannot commit
\* its row: its call fails with an error.
C20_IndustryNamesUnique ==
    /\ \A r1, r2 \in industries : r1.name = r2.name => r1 = r2
    /\ \A p \in Procs :
          (pc[p] = "industry_insert"
             /\ \E r \in industries : r.name = args[p].industry_name) =>
                /\ ~ENABLED (IndustryInsert(p) /\ pc'[p] = "location_lookup")
                /\ ENABLED (IndustryInsert(p) /\ pc'[p] = "failed"
                               /\ result'[p].status = 500
                               /\ industries' = industries)

\* A create_blog_post missed on the lookup of "Bakery", and a
\* create_with_category has stored "Bakery" before it could insert.
C20_Witness ==
    \E p \in Procs :
        /\ pc[p] = "industry_insert"
        /\ args[p].industry_name = "Bakery"
        /\ \E r \in industries : r.name = "Bakery" /\ r.category = "other"
        /\ \E q \in Procs : result[q] = [status |-> 200, step |-> "create_with_category"]

\* The sum of the counts of a {name: count} dict.
RECURSIVE SumCounts(_)
SumCounts(byName) ==
    IF DOMAIN byName = {} THEN 0
    ELSE LET n == CHOOSE x \in DOMAIN byName : TRUE IN
         byName[n] + SumCounts([ m \in DOMAIN byName \ {n} |-> byName[m] ])

\* C21: in every reachable state, what get_blog_stats returns has the counts
\* of posts_by_industry summing to total_posts and the counts of
\* posts_by_location summing to total_posts, rows of one shared Location name
\* being counted under that name.
C21_CountsSumToTotal ==
    /\ SumCounts(BlogStats.posts_by_industry) = BlogStats.total_posts
    /\ SumCounts(BlogStats.posts_by_location) = BlogStats.total_posts

\* C22: get_related_industries called with a name that no Industry row has
\* fails with a not-found (404) error; called with the name of a row it
\* returns at most `limit` industries, each of the category of the named row
\* and of another name; and it changes no row.
C22_RelatedOrNotFound ==
    [][ related' # related =>
          /\ UNCHANGED dbVars
          /\ IndustryByName(related'.industry_name) = {} =>
                related'.status = HTTP_404_NOT_FOUND
          /\ \A named \in IndustryByName(related'.industry_name) :
                /\ related'.status = HTTP_200_OK
                /\ Cardinality(related'.rows) <= related'.limit
                /\ \A r \in related'.rows :
                      /\ r \in industries
                      /\ r.category = named.category
                      /\ r.name # related'.industry_name ]_vars
=============================================================================
